---------------------------- MODULE Spec2Model ----------------------------
(***************************************************************************)
(* VCP: a serial-port transport in C (VCP.h) and its C# event adapter      *)
(* (VCPWrapper/VCP.cs).                                                    *)
(*                                                                         *)
(* The transport keeps its handle and the captured device settings in      *)
(* file-scope statics; the adapter (class Port) polls it from a            *)
(* System.Timers.Timer and raises DataRecived.  The operating system (the  *)
(* descriptor table, the device's line settings, its input queue) is       *)
(* modelled as far as the transport's calls observe it; each OS call may   *)
(* fail, which the actions draw as an input.                               *)
(*                                                                         *)
(* Every action leaves in `last` a record of the call it made: the         *)
(* operation, what it returned or raised and the transport and OS calls    *)
(* it issued, in order.                                                    *)
(***************************************************************************)
EXTENDS Integers, Sequences, FiniteSets, TLC

VARIABLES
    platform,        \* "win32" when _WIN32 is defined at build time, else "posix"
    COMPORT_BIG_ENDIAN, \* TRUE when COMPORT_BIG_ENDIAN is defined at build time, VCP.h:285
    hComm,           \* VCP.h:27 / VCP.h:36
    termiosInitial,  \* VCP.h:37 (DCBinitial, VCP.h:28, under _WIN32)
    TIMEOUTinitial,  \* VCP.h:29 (_WIN32 only)
    preOpen,         \* history: the device's settings and time-outs just before the
                     \* last init_COM_port, if it succeeded
    fdTable,         \* OS: what each descriptor / handle of the process refers to
    devSettings,     \* OS: the device's line settings (termios / DCB)
    devTimeouts,     \* OS: the device's time-outs (COMMTIMEOUTS)
    rxBuf,           \* OS: bytes the device received that no read has taken yet
    rxTotal,         \* bytes the device received so far
    rxArrivals,      \* bursts the device received so far
    portState,       \* "none" | "live" | "rejected" (constructor threw) | "finalized"
    PortName,        \* VCP.cs:75
    BaudRate,        \* VCP.cs:76
    Parity,          \* VCP.cs:77
    StopBits,        \* VCP.cs:78
    PortOpen,        \* VCP.cs:79
    dataPoller,      \* VCP.cs:81: [running, disposed] of the System.Timers.Timer
    DataRecived,     \* VCP.cs:89: TRUE when a handler is subscribed
    disposedValue,   \* VCP.cs:220
    finalizerSuppressed, \* GC.SuppressFinalize(this) was called, VCP.cs:243
    tickPc,          \* per timer callback in flight: "idle" | "drain" (about to re-poll)
    closePc,         \* the consumer's thread inside Close(): "idle" | "released"
                     \* (close_COM_port has released the handle, VCP.h:311 / 315,
                     \* and not yet assigned hComm)
    openReturned,    \* the Open() that set PortOpen returned normally
    pollLog,         \* history, since the Port was opened: the bytes poll_COM_port
                     \* returned to Poll, the bytes the handler was given, and
                     \* whether a handler was subscribed at every read that brought any
    tickBuffer,      \* per timer callback: the bytes Poll has read and not yet
                     \* raised the event for (VCP.cs:115-116), where the two are
                     \* apart
    otherPort,       \* a second Port of the process: its PortOpen and the handle
                     \* its Open() was given
    conversion,      \* the last call of ascii2hex / hex2ascii, with its result
    last             \* the call the last step made

vars == << platform, COMPORT_BIG_ENDIAN, hComm, termiosInitial, TIMEOUTinitial, preOpen,
           fdTable, devSettings, devTimeouts, rxBuf, rxTotal, rxArrivals, portState,
           PortName, BaudRate, Parity, StopBits, PortOpen, dataPoller, DataRecived,
           disposedValue, finalizerSuppressed, tickPc, closePc, openReturned, pollLog,
           tickBuffer, otherPort, conversion, last >>

buildVars == << platform, COMPORT_BIG_ENDIAN >>
\* What the steps of the transport and of the first Port, taken whole, leave alone.
asideVars == << tickBuffer, otherPort, conversion >>
transportVars == << hComm, termiosInitial, TIMEOUTinitial, preOpen >>
osVars == << fdTable, devSettings, devTimeouts, rxBuf >>
rxVars == << rxTotal, rxArrivals >>
portVars == << portState, PortName, BaudRate, Parity, StopBits, PortOpen, dataPoller,
               DataRecived, disposedValue, finalizerSuppressed, tickPc, closePc,
               openReturned, pollLog >>

-----------------------------------------------------------------------------
(* Bounds of the model *)

\* Handles the OS hands out beyond the three standard descriptors.
MaxHandles == 2
\* Bursts of input the device receives in one run.
MaxArrivals == 2
\* Timer callbacks that may be in flight at once.
MaxTicks == 1

\* The bytes a loopback device is sent.
MaxLoopback == 2

-----------------------------------------------------------------------------
(* Program constants *)

\* VCP.cs:83
bufferLength == 500

\* VCP.h:312 (INVALID_HANDLE_VALUE), VCP.h:316 (-1)
INVALID_HANDLE_VALUE == -1

\* VCP.h:231
EWOULDBLOCK == 11

\* VCP.cs:73
BaudRates == << 110, 300, 600, 1200, 2400, 4800, 9600, 14400, 19200, 38400, 57600,
                115200, 128000, 256000 >>

\* VCP.h:77 (_WIN32) and VCP.h:148 (otherwise)
BaudRno ==
    IF platform = "win32"
    THEN << 110, 300, 600, 1200, 2400, 4800, 9600, 14400, 19200, 38400, 57600,
            115200, 128000, 256000 >>
    ELSE << 0, 50, 75, 110, 134, 150, 200, 300, 600, 1200, 1800, 2400, 4800, 9600,
            19200, 38400, 57600, 115200, 230400 >>

Range(s) == { s[i] : i \in DOMAIN s }

Min(S) == CHOOSE x \in S : \A y \in S : x <= y

Zeros(n) == [ i \in 1..n |-> 0 ]

-----------------------------------------------------------------------------
(* The operating system, as the transport's calls see it *)

\* Descriptors 0..2 are the standard streams of a POSIX process; device handles
\* are handed out above them.
Fds == 0..(2 + MaxHandles)

\* Line settings of a device: a termios / DCB value.  mode is "default" (what the
\* device had before this program touched it), "raw" (8 data bits, no flow
\* control, no canonical input, immediate reads) or "zero" (an all-zero structure).
Settings(baud, parity, stopBits, mode) ==
    [ baud |-> baud, parity |-> parity, stopBits |-> stopBits, mode |-> mode ]

\* A static of the C program before any assignment holds zeroes.
ZeroSettings == Settings(0, 0, 1, "zero")

\* What the device may be set to when the program starts.
DeviceDefaults == { Settings(19200, 2, 2, "default") }

\* The handles open on the serial device.
DevHandles == { h \in Fds : fdTable[h] = "dev" }

\* Descriptors the OS can hand out: POSIX open() returns the lowest free one,
\* CreateFile a handle that is never one of 0..2 (NULL is no handle).
FreeHandles ==
    { h \in Fds : fdTable[h] = "closed" /\ (platform = "posix" \/ h > 2) }

\* open() / CreateFile() of the device: the new handle, or INVALID_HANDLE_VALUE.
\* A COM port is opened unshared under _WIN32 (VCP.h:83): a second CreateFile fails.
OsOpen(fails) ==
    IF fails \/ FreeHandles = {} \/ (platform = "win32" /\ DevHandles # {})
    THEN INVALID_HANDLE_VALUE
    ELSE Min(FreeHandles)

\* close() / CloseHandle(): the descriptor table afterwards.
OsClose(table, h) ==
    IF h \in Fds /\ table[h] # "closed" THEN [ table EXCEPT ![h] = "closed" ] ELSE table

\* The OS error code of a call on something that is no open handle
\* (EBADF / ERROR_INVALID_HANDLE) and of a failed transfer (EIO / ERROR_GEN_FAILURE).
OsErrorCode(kind) ==
    IF kind = "badHandle"
    THEN (IF platform = "win32" THEN 6 ELSE 9)
    ELSE (IF platform = "win32" THEN 31 ELSE 5)

\* OS failures an open can meet, by the call that fails.
InitFailures ==
    IF platform = "win32"
    THEN { "none", "open", "getState", "setState", "getTimeouts", "setTimeouts" }
    ELSE { "none", "open", "getState", "setState" }

\* What a read of the device can do: deliver what is there, fail, or (POSIX,
\* O_NONBLOCK) report that nothing is there with EWOULDBLOCK.
ReadOutcomes ==
    IF platform = "win32" THEN { "data", "error" } ELSE { "data", "error", "wouldBlock" }

\* read() / ReadFile() on handle h for at most length bytes:
\* [ok, n, data, errno, rx] (rx: the device's input queue afterwards).
OsRead(h, length, outcome) ==
    IF ~(h \in Fds) \/ fdTable[IF h \in Fds THEN h ELSE 0] = "closed"
    THEN [ ok |-> FALSE, n |-> 0, data |-> << >>, errno |-> OsErrorCode("badHandle"),
           rx |-> rxBuf ]
    ELSE IF fdTable[h] = "stdio"
    THEN \* a standard stream: nothing of the device is read
         [ ok |-> TRUE, n |-> 0, data |-> << >>, errno |-> 0, rx |-> rxBuf ]
    ELSE IF outcome = "error"
    THEN [ ok |-> FALSE, n |-> 0, data |-> << >>, errno |-> OsErrorCode("io"),
           rx |-> rxBuf ]
    ELSE IF outcome = "wouldBlock" /\ rxBuf = << >>
    THEN [ ok |-> FALSE, n |-> 0, data |-> << >>, errno |-> EWOULDBLOCK, rx |-> rxBuf ]
    ELSE LET n == IF Len(rxBuf) < length THEN Len(rxBuf) ELSE length
         IN  [ ok |-> TRUE, n |-> n, data |-> SubSeq(rxBuf, 1, n), errno |-> 0,
               rx |-> SubSeq(rxBuf, n + 1, Len(rxBuf)) ]

\* What a write to the device can do: take all the bytes, fail, or (POSIX,
\* O_NONBLOCK, VCP.h:155) take only the bytes the output queue has room for.
\* WriteFile with no write time-out (VCP.h:138-139) returns when all are taken.
WriteOutcomes ==
    IF platform = "win32" THEN { "all", "error" } ELSE { "all", "short", "error" }

\* write() / WriteFile() of length bytes on handle h: [ok, n, errno], n the bytes
\* the OS took.
OsWrite(h, length, outcome) ==
    IF ~(h \in Fds) \/ fdTable[IF h \in Fds THEN h ELSE 0] = "closed"
    THEN [ ok |-> FALSE, n |-> 0, errno |-> OsErrorCode("badHandle") ]
    ELSE IF fdTable[h] = "stdio"
    THEN \* a standard stream (the terminal): it takes the bytes, the device none
         [ ok |-> TRUE, n |-> length, errno |-> 0 ]
    ELSE IF outcome = "error"
    THEN [ ok |-> FALSE, n |-> 0, errno |-> OsErrorCode("io") ]
    ELSE IF outcome = "short" /\ length >= 2
    THEN [ ok |-> TRUE, n |-> length - 1, errno |-> 0 ]
    ELSE [ ok |-> TRUE, n |-> length, errno |-> 0 ]

-----------------------------------------------------------------------------
(* The transport: VCP.h *)

\* VCP.h:107-112 / VCP.h:188-194: the rate is set only when the table holds it.
SetBaudRate(current, baudRate) ==
    IF baudRate \in Range(BaudRno) THEN baudRate ELSE current

\* VCP.h:114 / VCP.h:195-196
SetParity(parityBit) ==
    IF platform = "win32"
    THEN (IF parityBit < 3 THEN parityBit ELSE 0)
    ELSE (IF parityBit = 0 THEN 0 ELSE IF parityBit = 1 THEN 1 ELSE 2)

\* VCP.h:115 / VCP.h:197
SetStopBits(stopBits) == IF stopBits = 2 THEN 2 ELSE 1

\* VCP.h:103-115 / VCP.h:170-200: the settings init_COM_port applies, from the
\* ones it read.
NewSettings(initial, baudRate, parityBit, stopBits) ==
    Settings(SetBaudRate(initial.baud, baudRate), SetParity(parityBit),
             SetStopBits(stopBits), "raw")

\* The result of a transport call: what it returns, the statics and the OS state
\* it leaves, and the OS calls it made.
TransportResult(ret, h, saved, savedTimeouts, table, settings, timeouts, rx, calls) ==
    [ ret |-> ret, hComm |-> h, termiosInitial |-> saved, TIMEOUTinitial |-> savedTimeouts,
      fdTable |-> table, devSettings |-> settings, devTimeouts |-> timeouts, rx |-> rx,
      calls |-> calls ]

\* A failure path that returns without closing the handle.
KeepOnFailure(table, h) == table

\* What init_COM_port leaves of the handle when a step after the open failed:
\* VCP.h:100, 118, 128, 142 / VCP.h:167, 204.
ReleaseOnFailure(table, h) == OsClose(table, h)

\* VCP.h:58-209.  fail names the OS call that fails, if any.
init_COM_port(baudRate, parityBit, stopBits, fail) ==
    LET h == OsOpen(fail = "open")
        opened == IF h = INVALID_HANDLE_VALUE THEN fdTable
                  ELSE [ fdTable EXCEPT ![h] = "dev" ]
        released == ReleaseOnFailure(opened, h)
        new == NewSettings(devSettings, baudRate, parityBit, stopBits)
    IN  IF h = INVALID_HANDLE_VALUE
        THEN TransportResult(-1, h, termiosInitial, TIMEOUTinitial, fdTable,
                             devSettings, devTimeouts, rxBuf, << "open" >>)
        ELSE IF fail = "getState"
        THEN TransportResult(-1, h, termiosInitial, TIMEOUTinitial, released,
                             devSettings, devTimeouts, rxBuf,
                             << "open", "getState", "close" >>)
        ELSE IF fail = "setState"
        THEN TransportResult(-1, h, devSettings, TIMEOUTinitial, released,
                             devSettings, devTimeouts, rxBuf,
                             << "open", "getState", "setState", "close" >>)
        ELSE IF platform = "win32" /\ fail = "getTimeouts"
        THEN TransportResult(-1, h, devSettings, TIMEOUTinitial, released,
                             new, devTimeouts, rxBuf,
                             << "open", "getState", "setState", "getTimeouts", "close" >>)
        ELSE IF platform = "win32" /\ fail = "setTimeouts"
        THEN TransportResult(-1, h, devSettings, devTimeouts, released,
                             new, devTimeouts, rxBuf,
                             << "open", "getState", "setState", "getTimeouts",
                                "setTimeouts", "close" >>)
        ELSE IF platform = "win32"
        THEN TransportResult(0, h, devSettings, devTimeouts, opened,
                             new, "immediate", rxBuf,
                             << "open", "getState", "setState", "getTimeouts",
                                "setTimeouts" >>)
        ELSE TransportResult(0, h, devSettings, TIMEOUTinitial, opened,
                             new, devTimeouts, rxBuf,
                             << "open", "getState", "setState" >>)

\* poll_COM_port without its test for EWOULDBLOCK.
PollReturnNoWouldBlock(r) == IF r.ok THEN r.n ELSE 0 - r.errno

\* VCP.h:229-235 (and VCP.h:215-223 under _WIN32): the value poll_COM_port returns
\* for what the OS read did.
PollReturn(r) ==
    IF platform = "win32"
    THEN (IF r.ok THEN r.n ELSE 0 - r.errno)
    ELSE (IF r.ok THEN r.n
          ELSE IF r.errno = EWOULDBLOCK THEN 0
          ELSE 0 - r.errno)

\* VCP.h:211-237.  The result carries, besides, the bytes put in the buffer and
\* what the OS read reported.
poll_COM_port(length, outcome) ==
    LET r == OsRead(hComm, length, outcome)
    IN  [ ret |-> PollReturn(r), data |-> r.data, os |-> r, rx |-> r.rx,
          calls |-> << "read" >> ]

\* VCP.h:248-252, 257-261 (and alike in send_byte and send_word): the value a
\* send returns for what the OS write did.
SendReturn(r) == IF r.ok THEN r.n ELSE 0 - r.errno

\* The write all three send functions make: the bytes handed to the OS, what it
\* reported and what the function returns.
TransportWrite(bytes, outcome) ==
    LET r == OsWrite(hComm, Len(bytes), outcome)
    IN  [ ret |-> SendReturn(r), data |-> bytes, os |-> r, calls |-> << "write" >> ]

\* uint8_t length, VCP.h:239: the length the function sees of the one passed.
Uint8(n) == n % 256

\* VCP.h:239-263: the first length bytes of buffer are handed to the OS.
COM_port_send_buffer(buffer, length, outcome) ==
    TransportWrite(SubSeq(buffer, 1, Uint8(length)), outcome)

\* VCP.h:265-281
COM_port_send_byte(data, outcome) == TransportWrite(<< Uint8(data) >>, outcome)

\* VCP.h:284-289 with COMPORT_BIG_ENDIAN defined whatever the build.
WordBufferBigEndian(data) == << (data \div 256) % 256, data % 256 >>

\* VCP.h:284-289: uint8_t buffer[2] of COM_port_send_word.
WordBuffer(data) ==
    IF COMPORT_BIG_ENDIAN
    THEN << (data \div 256) % 256, data % 256 >>
    ELSE << data % 256, (data \div 256) % 256 >>

\* VCP.h:283-305
COM_port_send_word(data, outcome) == TransportWrite(WordBuffer(data), outcome)

\* VCP.h:309-310 / VCP.h:314: SetCommState, SetCommTimeouts or tcsetattr takes
\* effect when hComm is a handle on the device and the OS accepts the settings.
Restored(restoreFails) == hComm \in DevHandles /\ ~restoreFails

\* What the settings call of close_COM_port reported.
RestoreReport(restoreFails) ==
    [ ok |-> Restored(restoreFails), n |-> 0,
      errno |-> IF Restored(restoreFails) THEN 0
                ELSE IF hComm \in DevHandles THEN OsErrorCode("io")
                ELSE OsErrorCode("badHandle") ]

\* A close that applies a zeroed structure.
AppliedOnCloseZero == ZeroSettings

\* VCP.h:309 (&DCBinitial) / VCP.h:314 (&termiosInitial): the settings
\* close_COM_port hands to the OS.
AppliedOnClose == termiosInitial

\* VCP.h:307-318.  restoreFails: the OS refuses the settings.
close_COM_port(restoreFails) ==
    LET onDevice == hComm \in DevHandles
        restored == Restored(restoreFails)
        table == OsClose(fdTable, hComm)
        lastClosed == onDevice /\ DevHandles = { hComm }
    IN  TransportResult(0, INVALID_HANDLE_VALUE, termiosInitial, TIMEOUTinitial, table,
            IF restored THEN AppliedOnClose ELSE devSettings,
            IF restored /\ platform = "win32" THEN TIMEOUTinitial ELSE devTimeouts,
            \* TCSAFLUSH discards the input not yet read; so does the last close
            IF (restored /\ platform = "posix") \/ lastClosed THEN << >> ELSE rxBuf,
            IF platform = "win32"
            THEN << "setState", "setTimeouts", "close" >>
            ELSE << "setState", "close" >>)

-----------------------------------------------------------------------------
(* The conversions: ascii2hex and hex2ascii of VCP.h.  A string is the sequence
   of its character codes, without the NUL that ends it. *)

\* VCP.h:326, 334, 342: the value of a hexadecimal digit, or -1 for a character
\* that is none.
HexValue(c) ==
    IF c >= 48 /\ c <= 57 THEN c - 48
    ELSE IF c >= 65 /\ c <= 70 THEN c - 55
    ELSE IF c >= 97 /\ c <= 102 THEN c - 87
    ELSE -1

\* VCP.h:326-350: the body of the loop of ascii2hex for the character c, with j
\* bytes complete in data and, when mid = 1, the upper half of the next one
\* stored; j is a uint8_t.
Ascii2hexStep(st, c) ==
    LET d == HexValue(c)
    IN  IF d = -1 THEN st
        ELSE IF st.mid = 1
        THEN \* data[j++] |= d, on a byte whose lower half is zero
             [ j |-> (st.j + 1) % 256, mid |-> 0,
               data |-> [ st.data EXCEPT ![st.j + 1] = @ + d ] ]
        ELSE \* data[j] = d << 4
             [ j |-> st.j, mid |-> 1,
               data |-> IF st.j + 1 <= Len(st.data)
                        THEN [ st.data EXCEPT ![st.j + 1] = (d * 16) % 256 ]
                        ELSE Append(st.data, (d * 16) % 256) ]

\* VCP.h:325-352: the passes of the loop for i = lo..hi, in order.
RECURSIVE Ascii2hexRun(_, _, _, _)
Ascii2hexRun(str, lo, hi, st) ==
    IF lo > hi THEN st
    ELSE IF lo = hi THEN Ascii2hexStep(st, str[lo + 1])
    ELSE LET m == (lo + hi) \div 2
             half == Ascii2hexRun(str, lo, m, st)
         IN  IF half.j \in 0..255 THEN Ascii2hexRun(str, m + 1, hi, half) ELSE half

\* VCP.h:320-356: [returns, data, ret]: whether the call returns, the bytes it
\* wrote and the count it returns (and stores in *len).  i is a uint8_t: when
\* none of str[0..255] is NUL, i++ takes it from 255 to 0, the loop meets the
\* characters it has met and never ends.
ascii2hex(str) ==
    LET start == [ j |-> 0, mid |-> 0, data |-> << >> ]
    IN  IF Len(str) <= 255
        THEN LET st == Ascii2hexRun(str, 0, Len(str) - 1, start)
             IN  [ returns |-> TRUE, data |-> st.data, ret |-> (st.j + st.mid) % 256 ]
        ELSE [ returns |-> FALSE, data |-> Ascii2hexRun(str, 0, 255, start).data,
               ret |-> 0 ]

\* VCP.h:366-367
HexChar(x) == IF x >= 10 THEN x + 55 ELSE x + 48

\* VCP.h:363-367: the body of the loop of hex2ascii for the byte b, str[j] the
\* next character; j is a uint8_t.  str maps the indices 0..255, all that a
\* uint8_t reaches, to the character stored there, -1 where nothing was stored.
Hex2asciiStep(st, b) ==
    [ j |-> (st.j + 2) % 256,
      str |-> [ st.str EXCEPT ![st.j] = HexChar(b \div 16),
                              ![(st.j + 1) % 256] = HexChar(b % 16) ] ]

\* VCP.h:362-368: the passes of the loop for i = lo..hi, in order.
RECURSIVE Hex2asciiRun(_, _, _, _)
Hex2asciiRun(data, lo, hi, st) ==
    IF lo > hi THEN st
    ELSE IF lo = hi THEN Hex2asciiStep(st, data[lo + 1])
    ELSE LET m == (lo + hi) \div 2
             half == Hex2asciiRun(data, lo, m, st)
         IN  IF half.j \in 0..255 THEN Hex2asciiRun(data, m + 1, hi, half) ELSE half

\* VCP.h:358-371: [str, ret]
hex2ascii(data, len) ==
    LET st == Hex2asciiRun(data, 0, (len % 256) - 1,
                           [ j |-> 0, str |-> [ k \in 0..255 |-> -1 ] ])
    IN  [ str |-> [ st.str EXCEPT ![st.j] = 0 ], ret |-> st.j ]

\* The string a buffer of characters holds: what precedes its first NUL.
CString(str) ==
    LET nul == Min({ k \in 0..256 : k = 256 \/ str[IF k = 256 THEN 0 ELSE k] = 0 })
    IN  [ k \in 1..nul |-> str[k - 1] ]

-----------------------------------------------------------------------------
(* The record of a step *)

\* What an OS read or write reported, without the bytes.
OsReport(r) == [ ok |-> r.ok, n |-> r.n, errno |-> r.errno ]

NoRead == [ ok |-> TRUE, n |-> 0, errno |-> 0 ]

\* The account of a timer callback that is none.
NoTick ==
    [ clean |-> FALSE, pending |-> 0, events |-> 0, reads |-> 0,
      prevPending |-> -1, prevEvents |-> 0 ]

\* op: the operation; arg: its argument (a rate, a length, a timer callback);
\* wasOpen: PortOpen when it was called; opened: openReturned then; raised: the
\* exception it threw, or "none"; ret: what the transport call returned; calls: the
\* transport and OS calls it made, in order; os: what the OS read, write or
\* settings call reported; data: the bytes the read put in the buffer, or the ones
\* handed to the write; notified: the events the handler received; tick: the
\* account of the timer callback the step is part of.
Call(op, arg, raised, ret, calls, os, data, notified) ==
    [ op |-> op, arg |-> arg, wasOpen |-> PortOpen, opened |-> openReturned,
      raised |-> raised, ret |-> ret,
      calls |-> calls, os |-> os, data |-> data, notified |-> notified,
      tick |-> NoTick ]

\* A call that read nothing and notified nobody.
PlainCall(op, arg, raised, ret, calls) ==
    Call(op, arg, raised, ret, calls, NoRead, << >>, << >>)

-----------------------------------------------------------------------------
(* Direct use of the transport, as the C programs make it (tester.c, serTest.c) *)

\* Arguments a caller opens the port with: << baudRate, parityBit, stopBits >>.
\* 9600 is in both rate tables (tester.c:70), 14400 in the _WIN32 one alone, 12345
\* in neither; parityBit 3 is beyond the documented values.
InitArgs == { << 9600, 0, 1 >>, << 14400, 3, 2 >>, << 12345, 0, 1 >> }

\* Buffer lengths a caller polls with (tester.c:78 polls with 128, serTest.c:57
\* with 1000).
PollLengths == { 0, 128, 1000 }

\* Sizes of the bursts the device receives while a C program polls it: less than
\* the buffer of tester.c holds, and more.
DirectArrivalSizes == { 1, 129 }

\* Sizes of the bursts the device receives while a Port polls it: less than its
\* scratch buffer holds, one byte short of it, and exactly as much.
ArrivalSizes == { 1, bufferLength - 1, bufferLength }

\* No open is in effect.
NoPreOpen == [ settings |-> ZeroSettings, timeouts |-> "zero" ]

\* The statics and the OS state a transport call leaves.
SetTransport(r) ==
    /\ hComm' = r.hComm
    /\ termiosInitial' = r.termiosInitial
    /\ TIMEOUTinitial' = r.TIMEOUTinitial
    /\ fdTable' = r.fdTable
    /\ devSettings' = r.devSettings
    /\ devTimeouts' = r.devTimeouts
    /\ rxBuf' = r.rx
    /\ preOpen' = IF r.calls[1] # "open" THEN preOpen
                  ELSE IF r.ret = 0
                  THEN [ settings |-> devSettings, timeouts |-> devTimeouts ]
                  ELSE NoPreOpen

CallInit(baudRate, parityBit, stopBits, fail) ==
    LET r == init_COM_port(baudRate, parityBit, stopBits, fail)
    IN  /\ SetTransport(r)
        /\ last' = PlainCall("init_COM_port", baudRate, "none", r.ret,
                             << "init_COM_port" >> \o r.calls)
        /\ UNCHANGED << buildVars, asideVars, rxVars, portVars >>

CallPoll(length, outcome) ==
    LET r == poll_COM_port(length, outcome)
    IN  /\ rxBuf' = r.rx
        /\ last' = Call("poll_COM_port", length, "none", r.ret,
                        << "poll_COM_port" >> \o r.calls, OsReport(r.os), r.data, << >>)
        /\ UNCHANGED << buildVars, asideVars, transportVars, fdTable, devSettings, devTimeouts,
                        rxVars, portVars >>

CallClose(restoreFails) ==
    LET r == close_COM_port(restoreFails)
    IN  /\ SetTransport(r)
        /\ last' = Call("close_COM_port", hComm, "none", 0,
                        << "close_COM_port" >> \o r.calls,
                        RestoreReport(restoreFails), << >>, << >>)
        /\ UNCHANGED << buildVars, asideVars, rxVars, portVars >>

\* A buffer of n bytes to send: byte number i is i mod 256.
Bytes(n) == [ i \in 1..n |-> i % 256 ]

\* Lengths a caller sends a buffer with (tester.c:85 sends 12 bytes).
SendLengths == { 0, 12 }

\* The byte tester.c:74 sends ('x').
SendByteArgs == { 120 }

\* Words a caller sends: the one of tester.c:95 (0x45C4), words with one byte
\* zero, with both bytes alike, and the ends of the range.
WordArgs == { 0, 255, 256, 17860, 43690, 65535 }

\* tester.c:85
CallSendBuffer(length, outcome) ==
    LET r == COM_port_send_buffer(Bytes(length), length, outcome)
    IN  /\ last' = Call("COM_port_send_buffer", length, "none", r.ret,
                        << "COM_port_send_buffer" >> \o r.calls, r.os, r.data, << >>)
        /\ UNCHANGED << buildVars, asideVars, transportVars, osVars, rxVars, portVars >>

\* tester.c:74
CallSendByte(data, outcome) ==
    LET r == COM_port_send_byte(data, outcome)
    IN  /\ last' = Call("COM_port_send_byte", data, "none", r.ret,
                        << "COM_port_send_byte" >> \o r.calls, r.os, r.data, << >>)
        /\ UNCHANGED << buildVars, asideVars, transportVars, osVars, rxVars, portVars >>

\* tester.c:95
CallSendWord(data, outcome) ==
    LET r == COM_port_send_word(data, outcome)
    IN  /\ last' = Call("COM_port_send_word", data, "none", r.ret,
                        << "COM_port_send_word" >> \o r.calls, r.os, r.data, << >>)
        /\ UNCHANGED << buildVars, asideVars, transportVars, osVars, rxVars, portVars >>

\* The device receives a burst of n bytes; byte number p of the stream is p mod 256.
DeviceReceive(n) ==
    /\ DevHandles # {}
    /\ rxArrivals < MaxArrivals
    /\ rxBuf' = rxBuf \o [ i \in 1..n |-> (rxTotal + i) % 256 ]
    /\ rxTotal' = rxTotal + n
    /\ rxArrivals' = rxArrivals + 1
    /\ last' = PlainCall("DeviceReceive", n, "none", 0, << >>)
    /\ UNCHANGED << buildVars, asideVars, transportVars, fdTable, devSettings, devTimeouts, portVars >>

\* Characters at and around the ends of the three ranges of digits, and two
\* separators: / 0 9 : @ A F G ` a f g - and space.
HexAlphabet == { 47, 48, 57, 58, 64, 65, 70, 71, 96, 97, 102, 103, 45, 32 }

\* Strings given to ascii2hex: those of at most two characters of HexAlphabet,
\* "A4a38" (tester.c:54) and "A4-a3 8", a character beyond ASCII, and strings of
\* 255 and of 256 digits.
AsciiInputs ==
    { << >> } \cup { << a >> : a \in HexAlphabet }
        \cup { << a, b >> : a \in HexAlphabet, b \in HexAlphabet }
        \cup { << 65, 52, 97, 51, 56 >>, << 65, 52, 45, 97, 51, 32, 56 >>, << 200, 49 >>,
               [ k \in 1..255 |-> 49 ], [ k \in 1..256 |-> 49 ] }

\* Byte arrays given to hex2ascii: those of at most two bytes with nibbles at
\* the ends of 0..9 and of 10..15, the bytes A4 A3 80, and arrays of 127, 128 and
\* 255 bytes.
HexInputs ==
    { << >> } \cup { << a >> : a \in { 0, 9, 10, 159, 255 } }
        \cup { << a, b >> : a \in { 0, 9, 10, 159, 255 }, b \in { 0, 9, 10, 159, 255 } }
        \cup { << 164, 163, 128 >> }
        \cup { [ k \in 1..n |-> k % 256 ] : n \in { 127, 128, 255 } }

\* tester.c:104
CallAscii2hex(str) ==
    LET r == ascii2hex(str)
    IN  /\ conversion' = [ op |-> "ascii2hex", str |-> str, data |-> r.data,
                           len |-> r.ret, ret |-> r.ret, returns |-> r.returns ]
        /\ last' = PlainCall("ascii2hex", Len(str), "none", r.ret, << >>)
        /\ UNCHANGED << buildVars, transportVars, osVars, rxVars, portVars, tickBuffer,
                        otherPort >>

\* tester.c:106, 113
CallHex2ascii(data) ==
    LET r == hex2ascii(data, Len(data))
    IN  /\ conversion' = [ op |-> "hex2ascii", str |-> CString(r.str), data |-> data,
                           len |-> Len(data), ret |-> r.ret, returns |-> TRUE ]
        /\ last' = PlainCall("hex2ascii", Len(data), "none", r.ret, << >>)
        /\ UNCHANGED << buildVars, transportVars, osVars, rxVars, portVars, tickBuffer,
                        otherPort >>

-----------------------------------------------------------------------------
(* The adapter: class Port of VCPWrapper/VCP.cs *)

NoName == "<null>"

\* Nothing read since the Port was opened.
NoPollLog == [ read |-> << >>, delivered |-> << >>, handled |-> TRUE ]

\* A second Port that is not open.
NoOtherPort == [ PortOpen |-> FALSE, handle |-> INVALID_HANDLE_VALUE ]

\* No conversion called yet.
NoConversion ==
    [ op |-> "none", str |-> << >>, data |-> << >>, len |-> 0, ret |-> 0,
      returns |-> TRUE ]

PortNames == { "COM7", NoName }

\* enum ParityBit, VCP.cs:16-21
ParityBit == { 0, 1, 2 }

\* enum StopBits, VCP.cs:23-27
StopBitsValues == { 1, 2 }

\* Arguments a consumer constructs a Port with: rates at both ends of BaudRates,
\* inside it and outside it, with the default parity and stop bits (VCP.cs:98);
\* another parity and stop bits; no name.
PortArgs ==
    { << "COM7", b, 0, 1 >> : b \in { 110, 300, 256000, 12345 } }
        \cup { << "COM7", 9600, 1, 2 >>, << NoName, 9600, 0, 1 >> }

\* Timer callbacks that may be in flight.
Ticks == 1..MaxTicks

\* Timer callbacks that may be in flight where they are let overlap.
RaceTicks == 1..(MaxTicks + 1)

\* Array.BinarySearch over array[lo..hi] (indices from 0): the index of value, or
\* the complement of the index where it would be inserted.
RECURSIVE BinarySearchIn(_, _, _, _)
BinarySearchIn(array, value, lo, hi) ==
    IF lo > hi THEN 0 - lo - 1
    ELSE LET i == lo + ((hi - lo) \div 2)
         IN  IF array[i + 1] = value THEN i
             ELSE IF array[i + 1] < value
             THEN BinarySearchIn(array, value, i + 1, hi)
             ELSE BinarySearchIn(array, value, lo, i - 1)

BinarySearch(array, value) == BinarySearchIn(array, value, 0, Len(array) - 1)

\* VCP.cs:100-101
CtorRejects(baudRate) == ~(BinarySearch(BaudRates, baudRate) > 0)

\* VCP.cs:98-110
PortCtor(portName, baudRate, parityBit, stopBits) ==
    /\ portState = "none"
    /\ IF CtorRejects(baudRate)
       THEN /\ portState' = "rejected"
            /\ last' = PlainCall("Port", baudRate, "ArgumentException", 0, << >>)
            /\ UNCHANGED << PortName, BaudRate, Parity, StopBits, dataPoller >>
       ELSE /\ portState' = "live"
            /\ PortName' = portName
            /\ BaudRate' = baudRate
            /\ Parity' = parityBit
            /\ StopBits' = stopBits
            /\ dataPoller' = [ running |-> FALSE, disposed |-> FALSE ]
            /\ last' = PlainCall("Port", baudRate, "none", 0, << >>)
    /\ UNCHANGED << buildVars, asideVars, transportVars, osVars, rxVars, PortOpen, DataRecived,
                    disposedValue, finalizerSuppressed, tickPc, closePc, openReturned, pollLog >>

\* port.DataRecived += handler (the demo program, line 21) and -= handler
Subscribe ==
    /\ portState = "live"
    /\ ~DataRecived
    /\ DataRecived' = TRUE
    /\ last' = PlainCall("Subscribe", 0, "none", 0, << >>)
    /\ UNCHANGED << buildVars, asideVars, transportVars, osVars, rxVars, portState, PortName,
                    BaudRate, Parity, StopBits, PortOpen, dataPoller, disposedValue,
                    finalizerSuppressed, tickPc, closePc, openReturned, pollLog >>

Unsubscribe ==
    /\ portState = "live"
    /\ DataRecived
    /\ DataRecived' = FALSE
    /\ last' = PlainCall("Unsubscribe", 0, "none", 0, << >>)
    /\ UNCHANGED << buildVars, asideVars, transportVars, osVars, rxVars, portState, PortName,
                    BaudRate, Parity, StopBits, PortOpen, dataPoller, disposedValue,
                    finalizerSuppressed, tickPc, closePc, openReturned, pollLog >>

\* Open() without its test of PortOpen.
OpenNeverReturnsAtOnce == FALSE

\* VCP.cs:143-144
OpenReturnsAtOnce == PortOpen

\* A Timer.Start() that starts no callbacks.
TimerStartNever(timer) == timer

\* VCP.cs:153: Timer.Start() throws on a disposed timer and starts no callbacks.
TimerStart(timer) ==
    IF timer.disposed THEN timer ELSE [ timer EXCEPT !.running = TRUE ]

\* VCP.cs:141-154
Open(fail) ==
    /\ portState = "live"
    /\ IF OpenReturnsAtOnce
       THEN /\ last' = PlainCall("Open", BaudRate, "none", 0, << >>)
            /\ UNCHANGED << transportVars, osVars, PortOpen, dataPoller, openReturned, pollLog >>
       ELSE IF PortName = NoName
       THEN /\ last' = PlainCall("Open", BaudRate, "ArgumentNullException", 0, << >>)
            /\ UNCHANGED << transportVars, osVars, PortOpen, dataPoller, openReturned, pollLog >>
       ELSE LET r == init_COM_port(BaudRate, Parity, StopBits, fail)
            IN  /\ SetTransport(r)
                /\ IF r.ret # 0
                   THEN /\ last' = PlainCall("Open", BaudRate, "Win32Exception", r.ret,
                                             << "init_COM_port" >> \o r.calls)
                        /\ UNCHANGED << PortOpen, dataPoller, openReturned, pollLog >>
                   ELSE /\ PortOpen' = TRUE
                        /\ dataPoller' = TimerStart(dataPoller)
                        /\ openReturned' = ~dataPoller.disposed
                        /\ pollLog' = NoPollLog
                        /\ last' = PlainCall("Open", BaudRate,
                                       IF dataPoller.disposed
                                       THEN "ObjectDisposedException" ELSE "none",
                                       r.ret,
                                       << "init_COM_port" >> \o r.calls
                                           \o << "Timer.Start" >>)
    /\ UNCHANGED << buildVars, asideVars, rxVars, portState, PortName, BaudRate, Parity, StopBits,
                    DataRecived, disposedValue, finalizerSuppressed, tickPc, closePc >>

\* Close() without its test of PortOpen.
CloseNeverReturnsAtOnce == FALSE

\* VCP.cs:161
CloseReturnsAtOnce == ~PortOpen

\* VCP.cs:159-166, as Close() and as the call Dispose(bool) makes of it; before:
\* the calls the caller made first.
CloseBody(op, before, restoreFails) ==
    IF CloseReturnsAtOnce
    THEN /\ last' = PlainCall(op, 0, "none", 0, before)
         /\ UNCHANGED << transportVars, osVars, PortOpen, openReturned, pollLog >>
    ELSE LET r == close_COM_port(restoreFails)
         IN  /\ SetTransport(r)
             /\ PortOpen' = FALSE
             /\ openReturned' = FALSE
             /\ pollLog' = NoPollLog
             /\ last' = PlainCall(op, 0, "none", 0,
                                  before \o << "close_COM_port" >> \o r.calls)

Close(restoreFails) ==
    /\ portState = "live"
    /\ CloseBody("Close", << >>, restoreFails)
    /\ UNCHANGED << buildVars, asideVars, rxVars, portState, PortName, BaudRate, Parity, StopBits,
                    dataPoller, DataRecived, disposedValue, finalizerSuppressed, tickPc, closePc >>

\* VCP.cs:161-163 and, inside close_COM_port, VCP.h:309-311 / VCP.h:314-315: the
\* consumer's thread runs Close() up to the release of the handle; hComm and
\* PortOpen are not yet assigned.  No lock keeps a timer callback from running
\* before CloseReturn.
CloseRelease(restoreFails) ==
    /\ portState = "live"
    /\ closePc = "idle"
    /\ IF CloseReturnsAtOnce
       THEN /\ last' = PlainCall("Close", 0, "none", 0, << >>)
            /\ UNCHANGED << osVars, closePc >>
       ELSE LET r == close_COM_port(restoreFails)
            IN  /\ fdTable' = r.fdTable
                /\ devSettings' = r.devSettings
                /\ devTimeouts' = r.devTimeouts
                /\ rxBuf' = r.rx
                /\ closePc' = "released"
                /\ last' = PlainCall("CloseRelease", 0, "none", 0,
                                     << "close_COM_port" >> \o r.calls)
    /\ UNCHANGED << buildVars, asideVars, transportVars, rxVars, portState, PortName, BaudRate,
                    Parity, StopBits, PortOpen, dataPoller, DataRecived, disposedValue,
                    finalizerSuppressed, tickPc, openReturned, pollLog >>

\* VCP.h:312 / VCP.h:316 and VCP.cs:165: the rest of Close().
CloseReturn ==
    /\ closePc = "released"
    /\ hComm' = INVALID_HANDLE_VALUE
    /\ PortOpen' = FALSE
    /\ openReturned' = FALSE
    /\ pollLog' = NoPollLog
    /\ closePc' = "idle"
    /\ last' = PlainCall("Close", 0, "none", 0, << >>)
    /\ UNCHANGED << buildVars, asideVars, termiosInitial, TIMEOUTinitial, preOpen, osVars, rxVars,
                    portState, PortName, BaudRate, Parity, StopBits, dataPoller,
                    DataRecived, disposedValue, finalizerSuppressed, tickPc >>

\* VCP.cs:224
DisposeReturnsAtOnce == disposedValue

\* VCP.cs:222-234
DisposeBody(op, disposing, restoreFails) ==
    IF DisposeReturnsAtOnce
    THEN /\ last' = PlainCall(op, 0, "none", 0, << >>)
         /\ UNCHANGED << transportVars, osVars, PortOpen, openReturned, pollLog, dataPoller,
                         disposedValue >>
    ELSE /\ dataPoller' = IF disposing
                          THEN [ running |-> FALSE, disposed |-> TRUE ]
                          ELSE dataPoller
         /\ CloseBody(op, IF disposing THEN << "Timer.Dispose" >> ELSE << >>,
                      restoreFails)
         /\ disposedValue' = TRUE

\* VCP.cs:240-244
Dispose(restoreFails) ==
    /\ portState = "live"
    /\ DisposeBody("Dispose", TRUE, restoreFails)
    /\ finalizerSuppressed' = TRUE
    /\ UNCHANGED << buildVars, asideVars, rxVars, portState, PortName, BaudRate, Parity, StopBits,
                    DataRecived, tickPc, closePc >>

\* VCP.cs:236-238: the finalizer runs once, when the consumer has let go of the
\* Port (or the process ends), and no call follows it.
Finalize(restoreFails) ==
    /\ portState = "live"
    /\ ~finalizerSuppressed
    /\ DisposeBody("Finalize", FALSE, restoreFails)
    /\ portState' = "finalized"
    /\ UNCHANGED << buildVars, asideVars, rxVars, PortName, BaudRate, Parity, StopBits,
                    DataRecived, finalizerSuppressed, tickPc, closePc >>

\* A byte[] argument: null, or an array of bytes.
NullBuffer == [ null |-> TRUE, bytes |-> << >> ]

Buffer(bytes) == [ null |-> FALSE, bytes |-> bytes ]

\* Arrays a consumer sends: none, an empty one, the shortest and the longest
\* that a byte counts, and one byte more.
SendBuffers == { NullBuffer } \cup { Buffer(Bytes(n)) : n \in { 0, 1, 255, 256 } }

\* Strings a consumer sends, as sequences of UTF-16 code units: "", and "H\u00e9".
SendStrings == { << >>, << 72, 233 >> }

\* Encoding.ASCII.GetBytes, VCP.cs:212: a character beyond ASCII becomes '?'.
ASCIIGetBytes(str) == [ i \in DOMAIN str |-> IF str[i] > 127 THEN 63 ELSE str[i] ]

\* SendBytes(byte[]) without its test of data.Length > byte.MaxValue.
SendBytesRejectsNoLongTest(data) ==
    IF ~PortOpen THEN "InvalidOperationException"
    ELSE IF data.null THEN "ArgumentNullException"
    ELSE IF Len(data.bytes) = 0 THEN "ArgumentException"
    ELSE "none"

\* VCP.cs:173-180: the exception SendBytes(byte[]) throws before any call of the
\* transport, or "none".
SendBytesRejects(data) ==
    IF ~PortOpen THEN "InvalidOperationException"
    ELSE IF data.null THEN "ArgumentNullException"
    ELSE IF Len(data.bytes) = 0 THEN "ArgumentException"
    ELSE IF Len(data.bytes) > 255 THEN "ArgumentException"
    ELSE "none"

\* VCP.cs:171-183, as SendBytes(byte[]) and as the call SendString makes of it.
SendBytesBody(op, data, outcome) ==
    IF SendBytesRejects(data) # "none"
    THEN last' = PlainCall(op, Len(data.bytes), SendBytesRejects(data), 0, << >>)
    ELSE LET r == COM_port_send_buffer(data.bytes, Len(data.bytes), outcome)
         IN  last' = Call(op, Len(data.bytes),
                          IF r.ret < 0 THEN "Win32Exception" ELSE "none", r.ret,
                          << "COM_port_send_buffer" >> \o r.calls, r.os, r.data, << >>)

SendBytes(data, outcome) ==
    /\ portState = "live"
    /\ SendBytesBody("SendBytes", data, outcome)
    /\ UNCHANGED << buildVars, asideVars, transportVars, osVars, rxVars, portVars >>

\* VCP.cs:210-213
SendString(str, outcome) ==
    /\ portState = "live"
    /\ SendBytesBody("SendString", Buffer(ASCIIGetBytes(str)), outcome)
    /\ UNCHANGED << buildVars, asideVars, transportVars, osVars, rxVars, portVars >>

\* VCP.cs:188-194: SendBytes(ushort)
SendBytesUshort(data, outcome) ==
    /\ portState = "live"
    /\ IF ~PortOpen
       THEN last' = PlainCall("SendBytesUshort", data, "InvalidOperationException",
                              0, << >>)
       ELSE LET r == COM_port_send_word(data, outcome)
            IN  last' = Call("SendBytesUshort", data,
                             IF r.ret < 0 THEN "Win32Exception" ELSE "none", r.ret,
                             << "COM_port_send_word" >> \o r.calls, r.os, r.data, << >>)
    /\ UNCHANGED << buildVars, asideVars, transportVars, osVars, rxVars, portVars >>

\* VCP.cs:199-205
SendByteBody(data, outcome) ==
    IF ~PortOpen
    THEN last' = PlainCall("SendByte", data, "InvalidOperationException", 0, << >>)
    ELSE LET r == COM_port_send_byte(data, outcome)
         IN  last' = Call("SendByte", data,
                          IF r.ret < 0 THEN "Win32Exception" ELSE "none", r.ret,
                          << "COM_port_send_byte" >> \o r.calls, r.os, r.data, << >>)

\* SendByte(data) on a device whose output goes nowhere.
SendByte(data, outcome) ==
    /\ portState = "live"
    /\ SendByteBody(data, outcome)
    /\ UNCHANGED << buildVars, asideVars, transportVars, osVars, rxVars, portVars >>

\* The bytes a loopback device receives of a send of one byte: those the OS
\* took of it for the device.
Looped(data, outcome) ==
    LET r == COM_port_send_byte(data, outcome)
    IN  IF PortOpen /\ hComm \in DevHandles /\ r.os.ok
        THEN SubSeq(r.data, 1, r.os.n) ELSE << >>

\* SendByte(data) on a loopback device (tester.c:74-83): what is written is
\* read back.
SendByteLoopback(data, outcome) ==
    /\ portState = "live"
    /\ rxTotal < MaxLoopback
    /\ SendByteBody(data, outcome)
    /\ rxBuf' = rxBuf \o Looped(data, outcome)
    /\ rxTotal' = rxTotal + Len(Looped(data, outcome))
    /\ UNCHANGED << buildVars, asideVars, transportVars, fdTable, devSettings,
                    devTimeouts, rxArrivals, portVars >>

\* VCP.cs:141-154 on a second Port of the process, made with
\* new Port("COM7"): PortOpen is a field of the instance, while init_COM_port is
\* the one static function of NativeMethods (VCP.cs:46-67) and works on the one
\* hComm of the library (VCP.h:24-38).  handle: the handle this Open() obtained.
OtherOpen(fail) ==
    /\ IF otherPort.PortOpen
       THEN /\ last' = PlainCall("OtherOpen", 9600, "none", 0, << >>)
            /\ UNCHANGED << transportVars, osVars, otherPort >>
       ELSE LET r == init_COM_port(9600, 0, 1, fail)
            IN  /\ SetTransport(r)
                /\ otherPort' = IF r.ret # 0 THEN otherPort
                                ELSE [ PortOpen |-> TRUE, handle |-> r.hComm ]
                /\ last' = PlainCall("OtherOpen", 9600,
                                     IF r.ret # 0 THEN "Win32Exception" ELSE "none",
                                     r.ret, << "init_COM_port" >> \o r.calls)
    /\ UNCHANGED << buildVars, tickBuffer, conversion, rxVars, portVars >>

\* VCP.cs:159-166 on the second Port.
OtherClose(restoreFails) ==
    /\ IF ~otherPort.PortOpen
       THEN /\ last' = PlainCall("OtherClose", 0, "none", 0, << >>)
            /\ UNCHANGED << transportVars, osVars, otherPort >>
       ELSE LET r == close_COM_port(restoreFails)
            IN  /\ SetTransport(r)
                /\ otherPort' = NoOtherPort
                /\ last' = PlainCall("OtherClose", 0, "none", 0,
                                     << "close_COM_port" >> \o r.calls)
    /\ UNCHANGED << buildVars, tickBuffer, conversion, rxVars, portVars >>

\* VCP.cs:115-116: the scratch buffer once the read has filled its first bytes.
ScratchBuffer(data) == data \o Zeros(bufferLength - Len(data))

\* The event given the whole scratch buffer.
UncroppedBuffer(buffer, bytesRecived) == buffer

\* VCP.cs:126-127
CroppedBuffer(buffer, bytesRecived) == SubSeq(buffer, 1, bytesRecived)

\* VCP.cs:118-120
PollThrows(bytesRecived) == bytesRecived < 0

\* No event for a read that filled the scratch buffer.
NotificationsUnlessFull(buffer, bytesRecived) ==
    IF bytesRecived > 0 /\ bytesRecived < bufferLength /\ DataRecived
    THEN << [ kind |-> "data", bytes |-> SubSeq(buffer, 1, bytesRecived) ] >>
    ELSE << >>

\* VCP.cs:121-130: the events the handler receives.
Notifications(buffer, bytesRecived) ==
    IF bytesRecived > 0 /\ DataRecived
    THEN << [ kind |-> "data", bytes |-> CroppedBuffer(buffer, bytesRecived) ] >>
    ELSE << >>

\* Polling again after any read that brought data.
PollAgainAfterAnyData(bytesRecived) == bytesRecived > 0

\* VCP.cs:132-134
PollAgain(bytesRecived) == bytesRecived > 0 /\ bytesRecived = bufferLength

\* The bytes of a sequence of events, in order.
RECURSIVE Payload(_)
Payload(events) ==
    IF events = << >> THEN << >> ELSE events[1].bytes \o Payload(Tail(events))

\* pollLog once Poll has read data and raised the events notified.
Logged(data, notified) ==
    IF PortOpen /\ data # << >>
    THEN [ read |-> pollLog.read \o data,
           delivered |-> pollLog.delivered \o Payload(notified),
           handled |-> pollLog.handled /\ DataRecived ]
    ELSE pollLog

\* The account of callback t once this activation has read r and raised the
\* events notified.  A callback is accounted for while every read of it succeeds
\* with the Port open and a handler subscribed, no other callback is in progress
\* and no step of anything else (the device, the consumer) comes between its
\* activations; prevPending and prevEvents are those of the callback that ended
\* in the step just before this one began, if accounted for.
TickAccount(op, t, r, notified) ==
    LET okNow == /\ r.ret >= 0
                 /\ DataRecived
                 /\ PortOpen
                 /\ \A u \in DOMAIN tickPc : u # t => tickPc[u] = "idle"
        follows == /\ last.op \in { "Poll", "PollAgain" }
                   /\ last.tick.clean
                   /\ tickPc[last.arg] = "idle"
        continues == /\ last.op \in { "Poll", "PollAgain" }
                     /\ last.arg = t
                     /\ last.tick.clean
    IN  IF op = "Poll" /\ okNow
        THEN [ clean |-> TRUE, pending |-> Len(rxBuf), events |-> Len(notified),
               reads |-> 1,
               prevPending |-> IF follows THEN last.tick.pending ELSE -1,
               prevEvents |-> IF follows THEN last.tick.events ELSE 0 ]
        ELSE IF op = "PollAgain" /\ okNow /\ continues
        THEN [ last.tick EXCEPT !.events = @ + Len(notified), !.reads = @ + 1 ]
        ELSE NoTick

\* VCP.cs:113-136: one activation of Poll by timer callback t.  An exception it
\* throws ends the callback; System.Timers.Timer swallows it.
Poll(op, t, outcome) ==
    LET r == poll_COM_port(bufferLength, outcome)
        bytesRecived == r.ret
        buffer == ScratchBuffer(r.data)
        notified == IF PollThrows(bytesRecived) THEN << >>
                    ELSE Notifications(buffer, bytesRecived)
    IN  /\ rxBuf' = r.rx
        /\ tickPc' = [ tickPc EXCEPT ![t] =
                         IF ~PollThrows(bytesRecived) /\ PollAgain(bytesRecived)
                         THEN "drain" ELSE "idle" ]
        /\ last' = [ Call(op, t,
                          IF PollThrows(bytesRecived) THEN "Win32Exception" ELSE "none",
                          bytesRecived, << "poll_COM_port" >> \o r.calls,
                          OsReport(r.os), r.data, notified)
                     EXCEPT !.tick = TickAccount(op, t, r, notified) ]
        /\ pollLog' = Logged(r.data, notified)
        /\ UNCHANGED << buildVars, asideVars, transportVars, fdTable, devSettings, devTimeouts,
                        rxVars, portState, PortName, BaudRate, Parity, StopBits,
                        PortOpen, dataPoller, DataRecived, disposedValue,
                        finalizerSuppressed, closePc, openReturned >>

\* VCP.cs:109: the timer's interval elapses and a callback starts (the lowest
\* free one: they are alike).
TimerElapsed(t, outcome) ==
    /\ portState = "live"
    /\ dataPoller.running
    /\ tickPc[t] = "idle"
    /\ \A u \in DOMAIN tickPc : u < t => tickPc[u] # "idle"
    /\ Poll("Poll", t, outcome)

\* VCP.cs:134: the recursive call.
PollRecursive(t, outcome) ==
    /\ portState = "live"
    /\ tickPc[t] = "drain"
    /\ Poll("PollAgain", t, outcome)

\* VCP.cs:115-120: the first half of an activation of Poll by callback t, up to
\* the test of what poll_COM_port returned; buffer is a local of the activation.
\* A thread-pool thread can be preempted between this and the rest.
PollRead(op, t, outcome) ==
    LET r == poll_COM_port(bufferLength, outcome)
        bytesRecived == r.ret
    IN  /\ rxBuf' = r.rx
        /\ tickBuffer' = [ tickBuffer EXCEPT ![t] = r.data ]
        /\ tickPc' = [ tickPc EXCEPT ![t] = IF bytesRecived > 0 THEN "read" ELSE "idle" ]
        /\ pollLog' = [ pollLog EXCEPT !.read = IF PortOpen THEN @ \o r.data ELSE @ ]
        /\ last' = Call(op, t,
                        IF PollThrows(bytesRecived) THEN "Win32Exception" ELSE "none",
                        bytesRecived, << "poll_COM_port" >> \o r.calls,
                        OsReport(r.os), r.data, << >>)
        /\ UNCHANGED << buildVars, otherPort, conversion, transportVars, fdTable,
                        devSettings, devTimeouts, rxVars, portState, PortName, BaudRate,
                        Parity, StopBits, PortOpen, dataPoller, DataRecived,
                        disposedValue, finalizerSuppressed, closePc, openReturned >>

\* VCP.cs:109, 115-120
TimerElapsedRead(t, outcome) ==
    /\ portState = "live"
    /\ dataPoller.running
    /\ tickPc[t] = "idle"
    /\ \A u \in DOMAIN tickPc : u < t => tickPc[u] # "idle"
    /\ PollRead("Poll", t, outcome)

\* VCP.cs:134, 115-120
PollRecursiveRead(t, outcome) ==
    /\ portState = "live"
    /\ tickPc[t] = "drain"
    /\ PollRead("PollAgain", t, outcome)

\* VCP.cs:121-134: the second half of an activation that read data: the event
\* with the cropped buffer, then whether Poll calls itself.
PollInvoke(t) ==
    LET bytesRecived == Len(tickBuffer[t])
        notified == Notifications(ScratchBuffer(tickBuffer[t]), bytesRecived)
    IN  /\ portState = "live"
        /\ tickPc[t] = "read"
        /\ tickPc' = [ tickPc EXCEPT ![t] =
                         IF PollAgain(bytesRecived) THEN "drain" ELSE "idle" ]
        /\ tickBuffer' = [ tickBuffer EXCEPT ![t] = << >> ]
        /\ pollLog' = [ pollLog EXCEPT
                          !.delivered = IF PortOpen THEN @ \o Payload(notified) ELSE @,
                          !.handled = @ /\ (PortOpen => DataRecived) ]
        /\ last' = Call("Invoke", t, "none", bytesRecived, << >>, NoRead,
                        tickBuffer[t], notified)
        /\ UNCHANGED << buildVars, otherPort, conversion, transportVars, osVars, rxVars,
                        portState, PortName, BaudRate, Parity, StopBits, PortOpen,
                        dataPoller, DataRecived, disposedValue, finalizerSuppressed,
                        closePc, openReturned >>

-----------------------------------------------------------------------------
(* Specifications *)

\* The process when it starts, whatever the build.
InitProcess ==
    /\ platform \in { "win32", "posix" }
    /\ hComm = 0
    /\ termiosInitial = ZeroSettings
    /\ TIMEOUTinitial = "zero"
    /\ preOpen = NoPreOpen
    /\ fdTable = [ h \in Fds |-> IF platform = "posix" /\ h <= 2 THEN "stdio"
                                 ELSE "closed" ]
    /\ devSettings \in DeviceDefaults
    /\ devTimeouts = "default"
    /\ rxBuf = << >>
    /\ rxTotal = 0
    /\ rxArrivals = 0
    /\ portState = "none"
    /\ PortName = NoName
    /\ BaudRate = 0
    /\ Parity = 0
    /\ StopBits = 0
    /\ PortOpen = FALSE
    /\ dataPoller = [ running |-> FALSE, disposed |-> FALSE ]
    /\ DataRecived = FALSE
    /\ disposedValue = FALSE
    /\ finalizerSuppressed = FALSE
    /\ closePc = "idle"
    /\ openReturned = FALSE
    /\ pollLog = NoPollLog
    /\ tickBuffer = [ t \in DOMAIN tickPc |-> << >> ]
    /\ otherPort = NoOtherPort
    /\ conversion = NoConversion
    /\ last = PlainCall("start", 0, "none", 0, << >>)

\* The default build: COMPORT_BIG_ENDIAN is not defined.
Init ==
    /\ COMPORT_BIG_ENDIAN = FALSE
    /\ tickPc = [ t \in Ticks |-> "idle" ]
    /\ InitProcess

\* Either build.
InitAnyBuild ==
    /\ COMPORT_BIG_ENDIAN \in BOOLEAN
    /\ tickPc = [ t \in Ticks |-> "idle" ]
    /\ InitProcess

\* The default build, with room for one timer callback more, so that callbacks
\* can overlap.
InitRace ==
    /\ COMPORT_BIG_ENDIAN = FALSE
    /\ tickPc = [ t \in RaceTicks |-> "idle" ]
    /\ InitProcess

\* A consumer of the adapter: one Port, its calls in any order, the timer's
\* callbacks and the device's input between them.
Next ==
    \/ \E args \in PortArgs : PortCtor(args[1], args[2], args[3], args[4])
    \/ Subscribe
    \/ Unsubscribe
    \/ \E fail \in InitFailures : Open(fail)
    \/ \E restoreFails \in BOOLEAN : Close(restoreFails)
    \/ \E restoreFails \in BOOLEAN : Dispose(restoreFails)
    \/ \E restoreFails \in BOOLEAN : Finalize(restoreFails)
    \/ \E t \in Ticks, outcome \in ReadOutcomes : TimerElapsed(t, outcome)
    \/ \E t \in Ticks, outcome \in ReadOutcomes : PollRecursive(t, outcome)
    \/ \E n \in ArrivalSizes : DeviceReceive(n)

Spec == Init /\ [][Next]_vars

\* A C program on the transport: its calls in any order.
NextTransport ==
    \/ \E args \in InitArgs, fail \in InitFailures :
            CallInit(args[1], args[2], args[3], fail)
    \/ \E length \in PollLengths, outcome \in ReadOutcomes : CallPoll(length, outcome)
    \/ \E restoreFails \in BOOLEAN : CallClose(restoreFails)
    \/ \E n \in DirectArrivalSizes : DeviceReceive(n)

SpecTransport == Init /\ [][NextTransport]_vars

\* A C program that sends (tester.c:74-102), built either way: its opens, sends,
\* polls and closes in any order, while the device receives nothing.
NextSend ==
    \/ \E args \in InitArgs, fail \in InitFailures :
            CallInit(args[1], args[2], args[3], fail)
    \/ \E length \in SendLengths, outcome \in WriteOutcomes :
            CallSendBuffer(length, outcome)
    \/ \E data \in SendByteArgs, outcome \in WriteOutcomes : CallSendByte(data, outcome)
    \/ \E data \in WordArgs, outcome \in WriteOutcomes : CallSendWord(data, outcome)
    \/ \E length \in PollLengths, outcome \in ReadOutcomes : CallPoll(length, outcome)
    \/ \E restoreFails \in BOOLEAN : CallClose(restoreFails)

SpecSend == InitAnyBuild /\ [][NextSend]_vars

\* A consumer that sends (the demo program, lines 19-53): one Port, its opens,
\* sends and closes in any order, while the device receives nothing and the
\* timer's callbacks are left out.
NextPortSend ==
    \/ \E args \in PortArgs : PortCtor(args[1], args[2], args[3], args[4])
    \/ \E fail \in InitFailures : Open(fail)
    \/ \E data \in SendBuffers, outcome \in WriteOutcomes : SendBytes(data, outcome)
    \/ \E str \in SendStrings, outcome \in WriteOutcomes : SendString(str, outcome)
    \/ \E data \in WordArgs, outcome \in WriteOutcomes : SendBytesUshort(data, outcome)
    \/ \E data \in SendByteArgs, outcome \in WriteOutcomes : SendByte(data, outcome)
    \/ \E restoreFails \in BOOLEAN : Close(restoreFails)
    \/ \E restoreFails \in BOOLEAN : Dispose(restoreFails)

SpecPortSend == Init /\ [][NextPortSend]_vars

\* A C program that converts (tester.c:104-114).
NextHex ==
    \/ \E str \in AsciiInputs : CallAscii2hex(str)
    \/ \E data \in HexInputs : CallHex2ascii(data)

SpecHex == Init /\ [][NextHex]_vars

\* One Port with the threads that run its code apart: the consumer's thread,
\* which is inside Close() for two steps, and the thread-pool threads that run
\* the timer's callbacks, which System.Timers.Timer starts whether or not an
\* earlier callback has returned.
NextRace ==
    \/ closePc = "idle" /\ PortCtor("COM7", 9600, 0, 1)
    \/ closePc = "idle" /\ Subscribe
    \/ closePc = "idle" /\ \E fail \in InitFailures : Open(fail)
    \/ \E restoreFails \in BOOLEAN : CloseRelease(restoreFails)
    \/ CloseReturn
    \/ \E t \in RaceTicks, outcome \in ReadOutcomes : TimerElapsed(t, outcome)
    \/ \E t \in RaceTicks, outcome \in ReadOutcomes : PollRecursive(t, outcome)
    \/ \E n \in ArrivalSizes : DeviceReceive(n)

SpecRace == InitRace /\ [][NextRace]_vars

\* One Port that is opened and stays open, a handler subscribed to it, and the
\* thread-pool threads that run the timer's callbacks, each of which can be
\* preempted between its read and its event.
NextOverlap ==
    \/ PortCtor("COM7", 9600, 0, 1)
    \/ Subscribe
    \/ \E fail \in InitFailures : Open(fail)
    \/ \E t \in RaceTicks, outcome \in ReadOutcomes : TimerElapsedRead(t, outcome)
    \/ \E t \in RaceTicks, outcome \in ReadOutcomes : PollRecursiveRead(t, outcome)
    \/ \E t \in RaceTicks : PollInvoke(t)
    \/ \E n \in ArrivalSizes : DeviceReceive(n)

SpecOverlap == InitRace /\ [][NextOverlap]_vars

\* Two Ports in one process, each opened and closed by the consumer.
NextTwoPorts ==
    \/ PortCtor("COM7", 9600, 0, 1)
    \/ \E fail \in InitFailures : Open(fail)
    \/ \E restoreFails \in BOOLEAN : Close(restoreFails)
    \/ \E fail \in InitFailures : OtherOpen(fail)
    \/ \E restoreFails \in BOOLEAN : OtherClose(restoreFails)

SpecTwoPorts == Init /\ [][NextTwoPorts]_vars

\* One Port on a loopback device: the consumer subscribes, opens, sends bytes
\* and closes, and the timer's callbacks run one at a time.  The MaxLoopback
\* bytes sent never fill the scratch buffer, so that Poll never calls itself.
NextLoopback ==
    \/ PortCtor("COM7", 9600, 0, 1)
    \/ Subscribe
    \/ \E fail \in InitFailures : Open(fail)
    \/ \E restoreFails \in BOOLEAN : Close(restoreFails)
    \/ \E outcome \in WriteOutcomes : SendByteLoopback(120, outcome)
    \/ \E t \in Ticks, outcome \in ReadOutcomes : TimerElapsed(t, outcome)

\* A callback whose read of the device does not fail.
TickReads == \E t \in Ticks : TimerElapsed(t, "data")

\* The timer keeps firing while it runs (VCP.cs:108-109, AutoReset) and the
\* device's read does not fail for ever.
SpecLoopback == Init /\ [][NextLoopback]_vars /\ WF_vars(TickReads)

-----------------------------------------------------------------------------
(* Properties *)

Count(seq, x) == Cardinality({ i \in DOMAIN seq : seq[i] = x })

\* The transport's functions and the OS calls they make.
TransportCalls ==
    { "init_COM_port", "poll_COM_port", "close_COM_port", "open", "getState",
      "setState", "getTimeouts", "setTimeouts", "read", "close" }

\* The steps that are an activation of Port.Poll.
PollOps == { "Poll", "PollAgain" }

\* C1: Open() on a Port that is already open does not call init_COM_port (nor
\* anything else of the transport), leaves PortOpen true and raises nothing.
C1_OpenWhileOpenIsNoOp ==
    (last.op = "Open" /\ last.wasOpen) =>
        /\ Count(last.calls, "init_COM_port") = 0
        /\ last.calls = << >>
        /\ PortOpen
        /\ last.raised = "none"

C1_Witness == last.op = "Open" /\ last.wasOpen /\ PortOpen /\ dataPoller.running

\* C2: a Close(), Dispose() or finalizer that finds the Port open after an Open()
\* that returned calls close_COM_port exactly once and leaves the Port closed, so
\* that the next ones find it closed; one that finds the Port closed makes no
\* transport or OS call and raises nothing.
C2_CloseOncePerOpen ==
    (last.op \in { "Close", "Dispose", "Finalize" }) =>
        /\ (last.wasOpen /\ last.opened) =>
              (Count(last.calls, "close_COM_port") = 1 /\ ~PortOpen)
        /\ ~last.wasOpen =>
              /\ Range(last.calls) \cap TransportCalls = {}
              /\ last.raised = "none"
              /\ ~PortOpen

C2_Witness ==
    /\ last.op = "Dispose"
    /\ last.wasOpen
    /\ last.opened
    /\ Count(last.calls, "close_COM_port") = 1

\* C3: a timer callback starts Port.Poll, and with it poll_COM_port, only while
\* the Port is open.
C3_NoPollAfterClose == (last.op = "Poll") => last.wasOpen

\* C4: with a handler subscribed, an activation of Poll whose poll_COM_port
\* returned k, 1 <= k <= bufferLength, gave the handler exactly one event, whose
\* bytes are the k bytes the read delivered, in order; one whose poll_COM_port
\* returned 0 gave it none.
C4_OneEventPerRead ==
    (last.op \in PollOps /\ DataRecived) =>
        /\ (1 <= last.ret /\ last.ret <= bufferLength) =>
              /\ last.notified = << [ kind |-> "data", bytes |-> last.data ] >>
              /\ Len(last.notified[1].bytes) = last.ret
        /\ last.ret = 0 => last.notified = << >>

C4_Witness ==
    /\ last.op \in PollOps
    /\ DataRecived
    /\ 1 <= last.ret
    /\ last.ret < bufferLength
    /\ Len(last.notified) = 1

\* C5: after an activation of Poll, its timer callback is about to poll again
\* exactly when poll_COM_port returned bufferLength; after fewer bytes, none or an
\* error the callback has ended.
C5_PollsAgainIffSaturated ==
    (last.op \in PollOps) =>
        ((tickPc[last.arg] = "drain") <=> (last.ret = bufferLength))

C5_Witness ==
    /\ last.op = "PollAgain"
    /\ 0 < last.ret
    /\ last.ret < bufferLength
    /\ tickPc[last.arg] = "idle"

\* C6: with a handler subscribed, an activation of Poll whose poll_COM_port
\* failed gave the handler an error event.
C6_PollErrorDelivered ==
    (last.op \in PollOps /\ DataRecived /\ last.ret < 0) =>
        \E i \in DOMAIN last.notified : last.notified[i].kind = "error"

\* C7: init_COM_port called with a rate that is not in its table neither opens
\* the device nor returns success.
C7_UnsupportedRateRejected ==
    (last.op = "init_COM_port" /\ ~(last.arg \in Range(BaudRno))) =>
        /\ last.ret # 0
        /\ Count(last.calls, "open") = 0

\* C8: constructing a Port with a rate of BaudRates raises nothing.
C8_SupportedRateAccepted ==
    (last.op = "Port" /\ last.arg \in Range(BaudRates)) => last.raised = "none"

\* C9: an Open() that failed after init_COM_port had opened the device leaves the
\* handle it opened released, no handle on the device open, PortOpen false and
\* the timer not started.
C9_FailedOpenReleasesHandle ==
    (/\ last.op = "Open"
     /\ last.raised = "Win32Exception"
     /\ Count(last.calls, "getState") = 1) =>
        /\ hComm \in Fds
        /\ fdTable[hComm] = "closed"
        /\ DevHandles = {}
        /\ ~PortOpen
        /\ Count(last.calls, "Timer.Start") = 0

C9_Witness ==
    /\ last.op = "Open"
    /\ last.raised = "Win32Exception"
    /\ Count(last.calls, "setState") = 1
    /\ fdTable[hComm] = "closed"

\* C10: poll_COM_port returns 0 when the OS read reported EWOULDBLOCK, the negated
\* OS error code for another failure of the read and for nothing else, and after
\* a read that succeeded the number of bytes it delivered, between 0 and length.
C10_PollReturnValue ==
    (last.op = "poll_COM_port") =>
        /\ (~last.os.ok /\ last.os.errno = EWOULDBLOCK) => last.ret = 0
        /\ (~last.os.ok /\ last.os.errno # EWOULDBLOCK) =>
              (last.ret = 0 - last.os.errno /\ last.ret < 0)
        /\ last.ret < 0 => (~last.os.ok /\ last.os.errno # EWOULDBLOCK)
        /\ last.os.ok =>
              /\ last.ret = Len(last.data)
              /\ 0 <= last.ret
              /\ last.ret <= last.arg

C10_Witness ==
    /\ last.op = "poll_COM_port"
    /\ ~last.os.ok
    /\ last.os.errno = EWOULDBLOCK
    /\ last.ret = 0

\* The steps that are a send of the Port.
SendOps == { "SendBytes", "SendString", "SendBytesUshort", "SendByte" }

\* C11: a send on a Port that is not open throws InvalidOperationException and
\* calls nothing of the transport; SendBytes with no array, an empty one or one
\* longer than 255 bytes throws and calls nothing; SendBytes with an array of 1
\* to 255 bytes on an open Port calls COM_port_send_buffer once, which hands the
\* OS write exactly those bytes.
C11_SendRejectsOrWrites ==
    /\ (last.op \in SendOps /\ ~last.wasOpen) =>
          (last.raised = "InvalidOperationException" /\ last.calls = << >>)
    /\ (last.op = "SendBytes" /\ (last.arg = 0 \/ last.arg > 255)) =>
          (last.raised # "none" /\ last.calls = << >>)
    /\ (last.op = "SendBytes" /\ last.wasOpen /\ 1 <= last.arg /\ last.arg <= 255) =>
          /\ last.calls = << "COM_port_send_buffer", "write" >>
          /\ Len(last.data) = last.arg
          /\ last.data = Bytes(last.arg)

C11_Witness ==
    /\ last.op = "SendBytes"
    /\ last.wasOpen
    /\ last.arg = 255
    /\ Count(last.calls, "write") = 1
    /\ Len(last.data) = 255

\* C12: a COM_port_send_buffer that returns no error returns the length it was
\* called with, and the OS took that many bytes.
C12_SuccessMeansAllWritten ==
    (last.op = "COM_port_send_buffer" /\ last.ret >= 0) =>
        (last.ret = last.arg /\ last.os.n = last.arg)

\* close_COM_port was called while hComm was an open handle on the device: its
\* settings call took effect, or the device refused it.
ClosedAnOpenTransport ==
    /\ last.op = "close_COM_port"
    /\ (last.os.ok \/ last.os.errno = OsErrorCode("io"))

\* C13: close_COM_port on an open transport hands the OS, once, the settings the
\* init_COM_port that opened it captured: when the OS accepts them the device's
\* settings (and, under _WIN32, its time-outs) are those it had just before that
\* init_COM_port; whether it accepts them or not, the handle is released and
\* hComm no longer names it.
C13_CloseRestoresAndReleases ==
    ClosedAnOpenTransport =>
        /\ Count(last.calls, "setState") = 1
        /\ last.os.ok =>
              /\ devSettings = preOpen.settings
              /\ platform = "win32" => devTimeouts = preOpen.timeouts
        /\ Count(last.calls, "close") = 1
        /\ fdTable[last.arg] = "closed"
        /\ hComm = INVALID_HANDLE_VALUE

C13_Witness ==
    /\ ClosedAnOpenTransport
    /\ last.os.ok
    /\ devSettings = preOpen.settings
    /\ devSettings.mode = "default"
    /\ fdTable[last.arg] = "closed"

\* The transport's functions that read or write.
TransportIo ==
    { "poll_COM_port", "COM_port_send_buffer", "COM_port_send_byte",
      "COM_port_send_word" }

\* C14: while hComm is no open handle on the device, poll_COM_port and the three
\* send functions return an error and the OS transfers nothing on any descriptor.
C14_NotOpenFailsWithoutIo ==
    (last.op \in TransportIo /\ ~(hComm \in DevHandles)) =>
        (last.ret < 0 /\ ~last.os.ok)

\* C15: close_COM_port called while hComm is no open handle on the device calls
\* neither the OS function that sets the device's settings nor the one that
\* releases a handle.
C15_CloseWhenClosedIsNoOp ==
    (last.op = "close_COM_port" /\ ~ClosedAnOpenTransport) =>
        /\ Count(last.calls, "setState") = 0
        /\ Count(last.calls, "close") = 0

\* C16: no activation of Poll, and so no read of poll_COM_port, runs while
\* Close() is between releasing the handle and returning.
C16_NoIoWhileClosing == (last.op \in PollOps) => closePc = "idle"

\* C17: a timer callback starts Poll only when no other callback is in progress.
C17_OnePollCycleAtATime ==
    (last.op = "Poll") =>
        \A u \in DOMAIN tickPc : u # last.arg => tickPc[u] = "idle"

\* The step ended a timer callback that is accounted for: nothing arrived and
\* nothing else ran between its start and its end.
TickEnded ==
    /\ last.op \in PollOps
    /\ last.tick.clean
    /\ tickPc[last.arg] = "idle"

\* C18 as claimed: a callback that began with bufferLength bytes pending, and
\* the callback right after it, gave the handler at least two events between
\* them; a callback that began with 1 to bufferLength - 1 bytes pending gave it
\* exactly one.
C18_TwoEventsWhenSaturated ==
    TickEnded =>
        /\ last.tick.prevPending = bufferLength =>
              last.tick.prevEvents + last.tick.events >= 2
        /\ (1 <= last.tick.pending /\ last.tick.pending <= bufferLength - 1) =>
              last.tick.events = 1

\* C18, amended: a callback that began with bufferLength bytes pending gave the
\* handler exactly one event and read twice, and the callback right after it
\* gave it none; a callback that began with 1 to bufferLength - 1 bytes pending
\* gave it exactly one event.
C18_OneEventWhenSaturated ==
    TickEnded =>
        /\ last.tick.pending = bufferLength =>
              (last.tick.events = 1 /\ last.tick.reads = 2)
        /\ last.tick.prevPending = bufferLength =>
              (last.tick.prevEvents = 1 /\ last.tick.events = 0)
        /\ (1 <= last.tick.pending /\ last.tick.pending <= bufferLength - 1) =>
              last.tick.events = 1

C18_Witness ==
    /\ TickEnded
    /\ last.tick.prevPending = bufferLength
    /\ last.tick.prevEvents = 1
    /\ last.tick.pending = 0
    /\ last.tick.events = 0

\* C19: COM_port_send_word makes one write, of two bytes: the low byte of the
\* word then its high byte in the default build, the high byte then the low one
\* when COMPORT_BIG_ENDIAN is defined; it returns 2 when the OS took both.
C19_WordIsTwoBytesInBuildOrder ==
    (last.op = "COM_port_send_word") =>
        /\ last.calls = << "COM_port_send_word", "write" >>
        /\ Len(last.data) = 2
        /\ ~COMPORT_BIG_ENDIAN =>
              last.data = << last.arg % 256, last.arg \div 256 >>
        /\ COMPORT_BIG_ENDIAN =>
              last.data = << last.arg \div 256, last.arg % 256 >>
        /\ (last.os.ok /\ last.os.n = 2) => last.ret = 2

C19_Witness ==
    /\ last.op = "COM_port_send_word"
    /\ COMPORT_BIG_ENDIAN
    /\ hComm \in DevHandles
    /\ last.arg = 17860
    /\ last.data = << 69, 196 >>
    /\ last.ret = 2

\* C20: poll_COM_port called with length 0 returns 0 and does not call the OS
\* read.
C20_ZeroLengthPollSkipsRead ==
    (last.op = "poll_COM_port" /\ last.arg = 0) =>
        (last.ret = 0 /\ Count(last.calls, "read") = 0)

\* A character is a hexadecimal digit.
IsHexDigit(c) ==
    \/ c \in 48..57
    \/ c \in 65..70
    \/ c \in 97..102

\* The value of a hexadecimal digit.
DigitValue(c) ==
    IF c \in 48..57 THEN c - 48 ELSE IF c \in 65..70 THEN c - 65 + 10 ELSE c - 97 + 10

\* The bytes that the hexadecimal digits of a string denote, two digits a byte,
\* the first the upper half, an odd last digit with a lower half of zero.
PackedDigits(str) ==
    LET digits == SelectSeq(str, IsHexDigit)
        d == Len(digits)
    IN  [ k \in 1..((d + 1) \div 2) |->
            16 * DigitValue(digits[2 * k - 1])
                + (IF 2 * k <= d THEN DigitValue(digits[2 * k]) ELSE 0) ]

\* The two characters that denote a byte, upper half first, in 0-9 and A-F.
UpperHex == << 48, 49, 50, 51, 52, 53, 54, 55, 56, 57, 65, 66, 67, 68, 69, 70 >>

HexText(data) ==
    [ k \in 1..(2 * Len(data)) |->
        IF k % 2 = 1 THEN UpperHex[(data[(k + 1) \div 2] \div 16) + 1]
        ELSE UpperHex[(data[k \div 2] % 16) + 1] ]

\* C21: ascii2hex returns, for every string, with the bytes its hexadecimal
\* digits denote (every other character skipped, two digits a byte, upper half
\* first, an odd last digit padded with a zero lower half) and their count.
C21_Ascii2hexPacksDigits ==
    (conversion.op = "ascii2hex") =>
        /\ conversion.returns
        /\ conversion.data = PackedDigits(conversion.str)
        /\ conversion.ret = Len(PackedDigits(conversion.str))

\* C22: hex2ascii, for every array of 0 to 255 bytes, produces the string of
\* twice as many characters that denotes them (two a byte, upper half first,
\* 0-9 and A-F) and returns its length.
C22_Hex2asciiTwoCharsPerByte ==
    (conversion.op = "hex2ascii") =>
        /\ conversion.str = HexText(conversion.data)
        /\ Len(conversion.str) = 2 * conversion.len
        /\ conversion.ret = 2 * conversion.len


\* C23: with a handler subscribed whenever data was read, and no callback
\* between its read and its event, the bytes the events have carried since the
\* Port was opened are, in order, the bytes the reads have returned since then.
C23_DeliveredInReadOrder ==
    (PortOpen /\ pollLog.handled /\ \A t \in DOMAIN tickPc : tickPc[t] # "read")
        => pollLog.delivered = pollLog.read

\* The one event that carries the byte 0x78.
Event78 == << [ kind |-> "data", bytes |-> << 120 >> ] >>

\* C24: while the Port is open with a handler subscribed, the k-th byte the
\* device has received since the Port was opened is eventually in an event
\* (unless the Port is closed first); and a byte 0x78 sent on an idle loopback
\* device is followed by an event whose bytes are exactly that byte (unless,
\* before the timer fires, the Port is closed or another byte is sent).
C24_ReceivedIsEventuallyDelivered ==
    /\ \A k \in 1..(MaxLoopback + 1) :
          (PortOpen /\ DataRecived /\ Len(pollLog.delivered) + Len(rxBuf) >= k)
              ~> (~PortOpen \/ Len(pollLog.delivered) >= k)
    /\ (PortOpen /\ DataRecived /\ rxBuf = << 120 >>)
          ~> \/ ~PortOpen
             \/ Len(rxBuf) > 1
             \/ last.op \in PollOps /\ last.notified = Event78

C24_Witness ==
    /\ PortOpen
    /\ last.op = "Poll"
    /\ last.notified = Event78
    /\ pollLog.delivered = << 120, 120 >>

\* C25: at most one handle that the transport opened on the device is open.
C25_AtMostOneDeviceHandle == Cardinality(DevHandles) <= 1

\* C26: while the second Port is open, the handle its Open() obtained is open on
\* the device, whatever was done with the first Port.
C26_OtherPortKeepsItsHandle ==
    otherPort.PortOpen =>
        /\ otherPort.handle \in Fds
        /\ fdTable[otherPort.handle] = "dev"

\* C27: a cap that the input cannot push bounds the reads of one timer callback:
\* even when every arrival of input fills the scratch buffer, the callback
\* reads no more than MaxArrivals times.
C27_ReadsOfATickCapped ==
    (last.op \in PollOps /\ last.tick.clean) => last.tick.reads <= MaxArrivals

\* C28: whenever PortOpen is true the timer that polls is running.
C28_OpenImpliesPolling == PortOpen => dataPoller.running

=============================================================================
